---- MODULE Spec2Model ----
(***************************************************************************)
(* The greedy mitigation solver of FFXIVMitigationSolver: the damage-event *)
(* timeline (damage_events.py) and the solver loop (solver.py).            *)
(*                                                                         *)
(* An entry of DamageEvent.mitigations is a reference to a Mitigation of   *)
(* the pool; it is modelled as the index of that Mitigation in the pool.   *)
(* An event or a mitigation returned by a search is the index in its list, *)
(* and None is 0.  A multiplier (a float in [0,1]) is the numerator of a   *)
(* fraction over MultDen; the input sets below only hold multipliers and   *)
(* damages for which Python's int(damage * (1.0 - multiplier)) is the      *)
(* exact floor of the rational product.                                    *)
(***************************************************************************)
EXTENDS Integers, Sequences, FiniteSets, TLC

VARIABLES damage_events, mitigations, effective_hp, pc, result, report

vars == <<damage_events, mitigations, effective_hp, pc, result, report>>

(* ------------------------------ bounds -------------------------------- *)
MaxTime == 2        \* event times are 0..MaxTime
MaxDuration == 2    \* durations are 1..MaxDuration
MaxRecast == 2      \* recasts are 1..MaxRecast
MaxUses == 4        \* the loop is followed for at most MaxUses applications

MultDen == 10
NoScore == -9999

DamageTypes == {"PHYSICAL", "MAGICAL", "UNIQUE"}
Damages == {4, 9}
Thresholds == {5}
Names == {"a", "b"}
\* <<physical_multiplier, magical_multiplier>> over MultDen
Multipliers == {<<5, 5>>, <<5, 10>>}
\* <<Len(damage_events), Len(mitigations)>>
Shapes == {<<3, 1>>, <<2, 2>>}

Abs(x) == IF x < 0 THEN -x ELSE x

(* --------------------------- DamageEvent ------------------------------ *)
\* a multiplier read as the fraction of the damage that is removed
MitigatedPart_Removes(damage, multiplier) == (damage * multiplier) \div MultDen

\* int(damage * (1.0 - multiplier)), damage >= 0, multiplier in [0,1]
MitigatedPart(damage, multiplier) == (damage * (MultDen - multiplier)) \div MultDen

\* the mitigated part is added to the damage
ReduceOnce_Adds(damage_type, damage, m) ==
    IF damage_type = "PHYSICAL"
    THEN damage + MitigatedPart(damage, m.physical_multiplier)
    ELSE IF damage_type = "MAGICAL"
         THEN damage + MitigatedPart(damage, m.magical_multiplier)
         ELSE damage

\* every type that is not PHYSICAL is reduced as MAGICAL
ReduceOnce_NoUnique(damage_type, damage, m) ==
    IF damage_type = "PHYSICAL"
    THEN damage - MitigatedPart(damage, m.physical_multiplier)
    ELSE damage - MitigatedPart(damage, m.magical_multiplier)

\* one pass of the loop body of DamageEvent.get_damage
ReduceOnce(damage_type, damage, m) ==
    IF damage_type = "PHYSICAL"
    THEN damage - MitigatedPart(damage, m.physical_multiplier)
    ELSE IF damage_type = "MAGICAL"
         THEN damage - MitigatedPart(damage, m.magical_multiplier)
         ELSE damage

RECURSIVE DamageFrom(_, _, _, _)
DamageFrom(ev, pool, damage, i) ==
    IF i > Len(ev.mitigations) THEN damage
    ELSE DamageFrom(ev, pool,
                    ReduceOnce(ev.damage_type, damage, pool[ev.mitigations[i]]),
                    i + 1)

get_damage(ev, pool) == DamageFrom(ev, pool, ev.damage, 1)

\* DamageEvent.apply_mitigation: the damage the mitigation would remove
apply_mitigation(ev, pool, mi) ==
    IF \E i \in 1..Len(ev.mitigations) : pool[ev.mitigations[i]].name = pool[mi].name
    THEN 0
    ELSE IF ev.damage_type = "PHYSICAL"
         THEN MitigatedPart(get_damage(ev, pool), pool[mi].physical_multiplier)
         ELSE IF ev.damage_type = "MAGICAL"
              THEN MitigatedPart(get_damage(ev, pool), pool[mi].magical_multiplier)
              ELSE 0

(* --------------------------- DamageEvents ----------------------------- *)
\* lethal only above the threshold
has_lethal_damage_Strict(evs, pool, hp) ==
    \E i \in 1..Len(evs) : get_damage(evs[i], pool) > hp

has_lethal_damage(evs, pool, hp) ==
    \E i \in 1..Len(evs) : get_damage(evs[i], pool) >= hp

\* a window that also holds the tick at which the duration ends
InWindow_Closed(event, anchor, m) ==
    event.time >= anchor.time /\ event.time <= anchor.time + m.duration

\* the window test shared by score_mitigation, get_mitigated_damage and
\* apply_mitigation: anchor.time <= event.time < anchor.time + duration
InWindow(event, anchor, m) ==
    event.time >= anchor.time /\ event.time < anchor.time + m.duration

RECURSIVE ScoreFrom(_, _, _, _, _)
ScoreFrom(evs, pool, mi, ai, i) ==
    IF i > Len(evs) THEN 0
    ELSE (IF InWindow(evs[i], evs[ai], pool[mi])
          THEN apply_mitigation(evs[i], pool, mi) ELSE 0)
         + ScoreFrom(evs, pool, mi, ai, i + 1)

score_mitigation(evs, pool, mi, ai) == ScoreFrom(evs, pool, mi, ai, 1)

RECURSIVE MitigatedFrom(_, _, _, _, _)
MitigatedFrom(evs, pool, mi, ai, i) ==
    IF i > Len(evs) THEN 0
    ELSE (IF InWindow(evs[i], evs[ai], pool[mi])
          THEN score_mitigation(evs, pool, mi, i) ELSE 0)
         + MitigatedFrom(evs, pool, mi, ai, i + 1)

get_mitigated_damage(evs, pool, mi, ai) == MitigatedFrom(evs, pool, mi, ai, 1)

\* a cooldown that only blocks the times after a use
mitigation_available_for_event_Forward(ev, m) ==
    \A i \in 1..Len(m.used_times) :
        ~(ev.time >= m.used_times[i] /\ ev.time - m.used_times[i] < m.recast)

\* the duration is taken for the recast
mitigation_available_for_event_Duration(ev, m) ==
    \A i \in 1..Len(m.used_times) : ~(Abs(ev.time - m.used_times[i]) < m.duration)

\* the recast is never looked at
mitigation_available_for_event_Always(ev, m) == TRUE

mitigation_available_for_event(ev, m) ==
    \A i \in 1..Len(m.used_times) : ~(Abs(ev.time - m.used_times[i]) < m.recast)

\* anchors one tick too early are not skipped
IsAnchorFor_Early(event, target, m) ==
    ~(event.time < target.time - m.duration \/ event.time > target.time)

\* the anchors the inner loop does not skip
IsAnchorFor(event, target, m) ==
    ~(event.time <= target.time - m.duration \/ event.time > target.time)

NoBest == [event |-> 0, mitigation |-> 0, score |-> NoScore]

\* the last of the equal best scores wins
BestStep_LastWins(evs, pool, ti, best, mi, ei) ==
    IF ~mitigation_available_for_event(evs[ti], pool[mi]) THEN best
    ELSE IF ~IsAnchorFor(evs[ei], evs[ti], pool[mi]) THEN best
    ELSE LET mitigated_damage == get_mitigated_damage(evs, pool, mi, ei)
         IN  IF mitigated_damage > 0 /\ mitigated_damage >= best.score
             THEN [event |-> ei, mitigation |-> mi, score |-> mitigated_damage]
             ELSE best

\* the body of the two nested loops for mitigation mi and event ei
BestStep(evs, pool, ti, best, mi, ei) ==
    IF ~mitigation_available_for_event(evs[ti], pool[mi]) THEN best
    ELSE IF ~IsAnchorFor(evs[ei], evs[ti], pool[mi]) THEN best
    ELSE LET mitigated_damage == get_mitigated_damage(evs, pool, mi, ei)
         IN  IF mitigated_damage > 0 /\ mitigated_damage > best.score
             THEN [event |-> ei, mitigation |-> mi, score |-> mitigated_damage]
             ELSE best

\* k counts the (mitigation, event) pairs in loop order
RECURSIVE BestFrom(_, _, _, _, _)
BestFrom(evs, pool, ti, best, k) ==
    IF k > Len(pool) * Len(evs) THEN best
    ELSE BestFrom(evs, pool, ti,
                  BestStep(evs, pool, ti, best,
                           ((k - 1) \div Len(evs)) + 1, ((k - 1) % Len(evs)) + 1),
                  k + 1)

get_most_effective_mitigation_for_event(evs, pool, ti) ==
    BestFrom(evs, pool, ti, NoBest, 1)

\* the last of the equal largest overkills wins
RECURSIVE OverkillFrom_LastWins(_, _, _, _, _)
OverkillFrom_LastWins(evs, pool, hp, max, i) ==
    IF i > Len(evs) THEN max[1]
    ELSE LET overkill_damage == get_damage(evs[i], pool) - hp
         IN  OverkillFrom_LastWins(evs, pool, hp,
                          IF max[1] = 0 \/ (overkill_damage >= 0 /\ overkill_damage >= max[2])
                          THEN <<i, overkill_damage>> ELSE max,
                          i + 1)

\* max is <<max_overkill_event, max_overkill_damage>>, <<0, 0>> for None
RECURSIVE OverkillFrom(_, _, _, _, _)
OverkillFrom(evs, pool, hp, max, i) ==
    IF i > Len(evs) THEN max[1]
    ELSE LET overkill_damage == get_damage(evs[i], pool) - hp
         IN  OverkillFrom(evs, pool, hp,
                          IF max[1] = 0 \/ (overkill_damage >= 0 /\ overkill_damage > max[2])
                          THEN <<i, overkill_damage>> ELSE max,
                          i + 1)

get_max_overkill_event(evs, pool, hp) == OverkillFrom(evs, pool, hp, <<0, 0>>, 1)

\* DamageEvents.apply_mitigation: the events after the mitigation is applied
AppliedEvents(evs, pool, mi, ai) ==
    [i \in 1..Len(evs) |->
        IF InWindow(evs[i], evs[ai], pool[mi])
        THEN [evs[i] EXCEPT !.mitigations = Append(@, mi)]
        ELSE evs[i]]

\* the use is put in front of the earlier uses
AppliedPool_Prepend(evs, pool, mi, ai) ==
    [pool EXCEPT ![mi].used_times = <<evs[ai].time>> \o @]

\* DamageEvents.apply_mitigation: the pool after the mitigation is applied
AppliedPool(evs, pool, mi, ai) ==
    [pool EXCEPT ![mi].used_times = Append(@, evs[ai].time)]

(* ------------------------------ inputs -------------------------------- *)
EventRecs(times, damages) ==
    [time : times, damage : damages, damage_type : DamageTypes, mitigations : {<<>>}]

MitigationRecs(mults, durations, recasts) ==
    {[name |-> n, physical_multiplier |-> mult[1], magical_multiplier |-> mult[2],
      duration |-> d, recast |-> r, used_times |-> <<>>] :
        n \in Names, mult \in mults, d \in durations, r \in recasts}

\* event lists in time order (ties are legal); the first event is at time 0
EventLists(n, recs) ==
    {evs \in [1..n -> recs] :
        /\ evs[1].time = 0
        /\ \A i \in 1..(n - 1) : evs[i].time <= evs[i + 1].time}

\* load_mitigations sorts the pool by recast; the first name is "a"
Pools(n, recs) ==
    {pool \in [1..n -> recs] :
        /\ pool[1].name = "a"
        /\ \A i \in 1..(n - 1) : pool[i].recast <= pool[i + 1].recast}

NoReport == [target |-> 0, anchor |-> 0, mitigation |-> 0, score |-> 0]

Init ==
    /\ \E shape \in Shapes :
          /\ damage_events \in EventLists(shape[1], EventRecs(0..MaxTime, Damages))
          /\ mitigations \in Pools(shape[2],
                                   MitigationRecs(Multipliers, 1..MaxDuration, 1..MaxRecast))
    /\ effective_hp \in Thresholds
    /\ pc = "RUNNING"
    /\ result = "NONE"
    /\ report = NoReport

(* ----------------------------- solver loop ---------------------------- *)
RECURSIVE UsesFrom(_, _)
UsesFrom(pool, i) ==
    IF i > Len(pool) THEN 0 ELSE Len(pool[i].used_times) + UsesFrom(pool, i + 1)

TotalUses == UsesFrom(mitigations, 1)

is_lethal_damage == has_lethal_damage(damage_events, mitigations, effective_hp)

Target == get_max_overkill_event(damage_events, mitigations, effective_hp)

Best == get_most_effective_mitigation_for_event(damage_events, mitigations, Target)

\* the uses are forgotten when the loop ends
Solved_Clears ==
    /\ pc = "RUNNING"
    /\ ~is_lethal_damage
    /\ pc' = "DONE"
    /\ result' = "SOLVED"
    /\ mitigations' = [mi \in 1..Len(mitigations) |->
                          [mitigations[mi] EXCEPT !.used_times = <<>>]]
    /\ UNCHANGED <<damage_events, effective_hp, report>>

\* the loop condition is false: the loop ends
Solved ==
    /\ pc = "RUNNING"
    /\ ~is_lethal_damage
    /\ pc' = "DONE"
    /\ result' = "SOLVED"
    /\ UNCHANGED <<damage_events, mitigations, effective_hp, report>>

\* most_effective_mit is None: "Out of mitigations - unsolvable!", break
Unsolvable ==
    /\ pc = "RUNNING"
    /\ is_lethal_damage
    /\ LET best == Best
       IN  /\ best.mitigation = 0
           /\ report' = [target |-> Target, anchor |-> 0, mitigation |-> 0,
                         score |-> best.score]
    /\ pc' = "DONE"
    /\ result' = "UNSOLVABLE"
    /\ UNCHANGED <<damage_events, mitigations, effective_hp>>

\* one iteration that applies the chosen mitigation at the chosen anchor
Apply ==
    /\ pc = "RUNNING"
    /\ is_lethal_damage
    /\ TotalUses < MaxUses
    /\ LET best == Best
       IN  /\ best.mitigation # 0
           /\ damage_events' =
                 AppliedEvents(damage_events, mitigations, best.mitigation, best.event)
           /\ mitigations' =
                 AppliedPool(damage_events, mitigations, best.mitigation, best.event)
           /\ report' = [target |-> Target, anchor |-> best.event,
                         mitigation |-> best.mitigation, score |-> best.score]
    /\ UNCHANGED <<effective_hp, pc, result>>

Next == Solved \/ Unsolvable \/ Apply

Spec == Init /\ [][Next]_vars

\* the same runs, for the claims about the search alone
SpecSearch == Init /\ [][Next]_vars

\* the same runs, for the claims about single events and the apply step
SpecFrame == Init /\ [][Next]_vars

\* longer timelines with one mitigation: four events at increasing times
InitLong ==
    /\ damage_events \in
          {evs \in EventLists(4, EventRecs(0..(MaxTime + 2), Damages)) :
              \A i \in 1..3 : evs[i].time < evs[i + 1].time}
    /\ mitigations \in Pools(1, MitigationRecs(Multipliers, 1..(MaxDuration + 1),
                                               1..MaxRecast))
    /\ effective_hp \in Thresholds
    /\ pc = "RUNNING"
    /\ result = "NONE"
    /\ report = NoReport

SpecLong == InitLong /\ [][Next]_vars

\* the multipliers k/MultDen for which int(100000 * (1.0 - k/MultDen)) is exact
ScenarioMultipliers == {0, 1, 2, 3, 4, 5, 6, 7, 10}

\* the scenarios of one "Tank Buster" event at time 10 with damage 100000,
\* threshold 80000, and one mitigation of duration 5 and recast 60
InitScenario ==
    /\ \E ty \in DamageTypes :
          damage_events = <<[time |-> 10, damage |-> 100000, damage_type |-> ty,
                             mitigations |-> <<>>]>>
    /\ \E pm \in ScenarioMultipliers, mm \in ScenarioMultipliers :
          mitigations = <<[name |-> "a", physical_multiplier |-> pm,
                           magical_multiplier |-> mm, duration |-> 5, recast |-> 60,
                           used_times |-> <<>>]>>
    /\ effective_hp = 80000
    /\ pc = "RUNNING"
    /\ result = "NONE"
    /\ report = NoReport

SpecScenario == InitScenario /\ [][Next]_vars


\* timelines for repeated use: four events at increasing times with one
\* mitigation, or two events with two mitigations; recasts as long as durations
RepeatShapes == {<<4, 1>>, <<2, 2>>}

RepeatEvents(n) ==
    {evs \in EventLists(n, [time : 0..(IF n > 2 THEN MaxTime + 2 ELSE MaxTime - 1),
                            damage : Damages,
                            damage_type : {"PHYSICAL", "UNIQUE"},
                            mitigations : {<<>>}]) :
        n > 2 => \A i \in 1..(n - 1) : evs[i].time < evs[i + 1].time}

InitRepeat ==
    /\ \E shape \in RepeatShapes :
          /\ damage_events \in RepeatEvents(shape[1])
          /\ mitigations \in Pools(shape[2],
                                   MitigationRecs(Multipliers, 1..(MaxDuration + 1),
                                                  1..(MaxDuration + 1)))
    /\ effective_hp \in Thresholds
    /\ pc = "RUNNING"
    /\ result = "NONE"
    /\ report = NoReport

SpecRepeat == InitRepeat /\ [][Next]_vars

\* the same runs, for the properties of the windows of repeated uses
SpecDisjoint == InitRepeat /\ [][Next]_vars

(* ------------------------------ claims -------------------------------- *)
Damage(i) == get_damage(damage_events[i], mitigations)

Events == 1..Len(damage_events)

Pool == 1..Len(mitigations)

NameAt(i, j) == mitigations[damage_events[i].mitigations[j]].name

\* C2: in every reachable state no event's mitigations list holds two entries
\* with the same mitigation name.
C2_NoDuplicateName ==
    \A i \in Events : \A j, k \in 1..Len(damage_events[i].mitigations) :
        j # k => NameAt(i, j) # NameAt(i, k)

\* C3: in every reachable state any two entries of a mitigation's used_times
\* differ by at least its recast.
C3_RecastSeparation ==
    \A mi \in Pool : \A j, k \in 1..Len(mitigations[mi].used_times) :
        j # k => Abs(mitigations[mi].used_times[j] - mitigations[mi].used_times[k])
                    >= mitigations[mi].recast

\* the (mitigation, anchor) pairs the search for target ti considers: the
\* mitigation has no use within recast of the target, and the anchor's time is
\* in (target.time - duration, target.time]
Eligible(ti) ==
    {c \in Pool \X Events :
        /\ \A j \in 1..Len(mitigations[c[1]].used_times) :
              \/ damage_events[ti].time - mitigations[c[1]].used_times[j]
                    >= mitigations[c[1]].recast
              \/ mitigations[c[1]].used_times[j] - damage_events[ti].time
                    >= mitigations[c[1]].recast
        /\ damage_events[ti].time - mitigations[c[1]].duration < damage_events[c[2]].time
        /\ damage_events[c[2]].time <= damage_events[ti].time}

\* the pairs it may return: those of positive window score
Candidates(ti) ==
    {c \in Eligible(ti) :
        get_mitigated_damage(damage_events, mitigations, c[1], c[2]) > 0}

Lethal == {i \in Events : Damage(i) >= effective_hp}

\* the events with the largest effective damage
Worst == {i \in Events : \A j \in Events : Damage(j) <= Damage(i)}

\* C4: at DONE the run is SOLVED with every event below the threshold, or
\* UNSOLVABLE with a lethal event and no candidate of positive score for the
\* first event of largest damage; the loop stops in no other case.
C4_DoneOutcome ==
    pc = "DONE" =>
        \/ /\ result = "SOLVED"
           /\ Lethal = {}
        \/ /\ result = "UNSOLVABLE"
           /\ Lethal # {}
           /\ \E w \in Worst : /\ \A j \in Worst : w <= j
                               /\ Candidates(w) = {}
                               /\ report.target = w
           /\ report.mitigation = 0

\* the run ends UNSOLVABLE after at least one application
C4_Witness ==
    pc = "DONE" /\ result = "UNSOLVABLE" /\ TotalUses > 0

\* what the loop reads of the state: each event's effective damage and
\* attached names, each mitigation's set of use times
DecisionState ==
    [damage |-> [i \in Events |-> Damage(i)],
     names |-> [i \in Events |->
                   {NameAt(i, j) : j \in 1..Len(damage_events[i].mitigations)}],
     used |-> [mi \in Pool |->
                  {mitigations[mi].used_times[j] :
                      j \in 1..Len(mitigations[mi].used_times)}]]

\* C1: the loop ends after finitely many iterations: no application leaves
\* everything the next iteration reads unchanged (an application that does
\* is repeated for ever, with the same lethal event).
C1_EveryApplicationProgresses ==
    [][mitigations' # mitigations => DecisionState' # DecisionState]_vars

\* C5: every mitigation the solver applies reduces the effective damage of
\* the event it was selected for (if none can, the run ends without applying).
C5_AppliedReducesTarget ==
    [][mitigations' # mitigations =>
          get_damage(damage_events'[Target], mitigations')
              < get_damage(damage_events[Target], mitigations)]_vars

Attach(ev, mi) == [ev EXCEPT !.mitigations = Append(@, mi)]

\* C6: for a PHYSICAL or MAGICAL event, attaching the same mitigation twice
\* gives the same effective damage as attaching it once.
C6_DuplicateIdempotent ==
    \A i \in Events : \A mi \in Pool :
        damage_events[i].damage_type # "UNIQUE" =>
            get_damage(Attach(Attach(damage_events[i], mi), mi), mitigations)
                = get_damage(Attach(damage_events[i], mi), mitigations)

ScenarioB ==
    /\ damage_events[1].damage_type = "PHYSICAL"
    /\ mitigations[1].physical_multiplier = 1

\* C7 as stated: in scenario B (physical_multiplier 0.1) the run ends
\* UNSOLVABLE with the event at 90000 after the one application.
C7_ScenarioB_Unsolvable ==
    (ScenarioB /\ pc = "DONE") =>
        /\ result = "UNSOLVABLE"
        /\ Damage(1) = 90000
        /\ mitigations[1].used_times = <<10>>

\* C7 amended: in scenario B the mitigation is applied once, at time 10, the
\* event is then at 10000 and the run ends SOLVED; a multiplier p leaves the
\* fraction p of the damage (1 - p is removed).
C7_ScenarioB_Solved ==
    /\ ScenarioB =>
          \/ pc = "RUNNING" /\ mitigations[1].used_times = <<>> /\ Damage(1) = 100000
          \/ /\ mitigations[1].used_times = <<10>>
             /\ damage_events[1].mitigations = <<1>>
             /\ Damage(1) = 10000
             /\ pc = "DONE" => result = "SOLVED"
    /\ (damage_events[1].damage_type = "PHYSICAL" /\ damage_events[1].mitigations = <<1>>)
          => Damage(1) * MultDen = 100000 * mitigations[1].physical_multiplier

C7_Witness ==
    ScenarioB /\ pc = "DONE" /\ mitigations[1].used_times = <<10>>

\* C8: the mitigation the search returns for a target event has no use
\* within recast of the target's time, before or after it; availability is
\* exactly that.  (A DONE state holds the events and the pool of the RUNNING
\* state before it, so the RUNNING states are all the cases.)
C8_CooldownExclusion ==
    pc = "RUNNING" => \A ti \in Events :
        /\ LET best == get_most_effective_mitigation_for_event(damage_events, mitigations, ti)
           IN  best.mitigation # 0 =>
                  \A j \in 1..Len(mitigations[best.mitigation].used_times) :
                      Abs(damage_events[ti].time - mitigations[best.mitigation].used_times[j])
                          >= mitigations[best.mitigation].recast
        /\ \A mi \in Pool :
              mitigation_available_for_event(damage_events[ti], mitigations[mi])
                  <=> \A j \in 1..Len(mitigations[mi].used_times) :
                         \/ damage_events[ti].time - mitigations[mi].used_times[j]
                               >= mitigations[mi].recast
                         \/ mitigations[mi].used_times[j] - damage_events[ti].time
                               >= mitigations[mi].recast

\* a mitigation on cooldown for the target, used later than the target's
\* time, that would score higher than the pair the search returns
C8_Witness ==
    /\ pc = "RUNNING"
    /\ Lethal # {}
    /\ \E mi \in Pool, ei \in Events :
          /\ \E j \in 1..Len(mitigations[mi].used_times) :
                /\ mitigations[mi].used_times[j] > damage_events[Target].time
                /\ mitigations[mi].used_times[j] - damage_events[Target].time
                      < mitigations[mi].recast
          /\ IsAnchorFor(damage_events[ei], damage_events[Target], mitigations[mi])
          /\ get_mitigated_damage(damage_events, mitigations, mi, ei) > 0
          /\ get_mitigated_damage(damage_events, mitigations, mi, ei) > Best.score
          /\ Best.mitigation # mi

\* C9: with a lethal event, get_max_overkill_event returns a lethal event of
\* the largest effective damage, the first such in list order; with none, it
\* returns the first event.
C9_MaxOverkillEvent ==
    LET r == get_max_overkill_event(damage_events, mitigations, effective_hp)
    IN  /\ r \in Events
        /\ IF Lethal # {}
           THEN /\ Damage(r) >= effective_hp
                /\ r \in Worst
                /\ \A j \in Worst : r <= j
           ELSE r = 1

\* lethal events of equal largest damage after the first event, after a use
C9_Witness ==
    /\ TotalUses > 0
    /\ Lethal # {}
    /\ \E i, j \in Worst : 1 < i /\ i < j /\ 1 \notin Worst

\* C10: the search returns a candidate of the largest window score, the first
\* such in pool order and then in event order, with that score; it returns
\* (None, None, -9999) exactly when there is no candidate.  (A DONE state
\* holds the events and the pool of the RUNNING state before it.)
C10_BestAssignment ==
    pc = "RUNNING" =>
        \A ti \in Events :
            LET best == get_most_effective_mitigation_for_event(damage_events,
                                                                mitigations, ti)
                \* <<mitigation, anchor, window score>>
                scored == {<<c[1], c[2],
                             get_mitigated_damage(damage_events, mitigations, c[1], c[2])>> :
                              c \in Eligible(ti)}
                cands == {c \in scored : c[3] > 0}
            IN  IF cands = {}
                THEN best = [event |-> 0, mitigation |-> 0, score |-> -9999]
                ELSE /\ <<best.mitigation, best.event, best.score>> \in cands
                     /\ \A c \in cands :
                           /\ c[3] <= best.score
                           /\ c[3] = best.score =>
                                 \/ best.mitigation < c[1]
                                 \/ best.mitigation = c[1] /\ best.event <= c[2]

\* two mitigations and two anchors tie for the largest score
C10_Witness ==
    /\ pc = "RUNNING"
    /\ Lethal # {}
    /\ TotalUses > 0
    /\ \E c, d \in Candidates(Target) :
          /\ c[1] < d[1]
          /\ get_mitigated_damage(damage_events, mitigations, c[1], c[2]) = Best.score
          /\ get_mitigated_damage(damage_events, mitigations, d[1], d[2]) = Best.score

Last(seq) == seq[Len(seq)]

\* C11: the anchor the search returns for a target reaches the target
\* (anchor.time <= target.time < anchor.time + duration), so the application
\* that follows attaches the chosen mitigation to the target event.
C11_AnchorReachesTarget ==
    /\ pc = "RUNNING" =>
          \A ti \in Events :
              LET best == get_most_effective_mitigation_for_event(damage_events,
                                                                  mitigations, ti)
              IN  best.mitigation # 0 =>
                     /\ damage_events[best.event].time <= damage_events[ti].time
                     /\ damage_events[ti].time
                           < damage_events[best.event].time
                                + mitigations[best.mitigation].duration
    /\ report.mitigation # 0 =>
          /\ damage_events[report.target].mitigations # <<>>
          /\ Last(damage_events[report.target].mitigations) = report.mitigation

\* an application anchored at an event earlier than its target
C11_Witness ==
    /\ report.mitigation # 0
    /\ damage_events[report.anchor].time < damage_events[report.target].time

IsPrefix(s, t) == Len(s) <= Len(t) /\ \A j \in 1..Len(s) : s[j] = t[j]

\* C12: the apply step for mitigation m at an anchor appends the anchor's time
\* to m.used_times once, appends m once to every event e with
\* anchor.time <= e.time < anchor.time + m.duration and to no other event, and
\* leaves the other mitigations and every event's time, damage and type alone.
C12_ApplyEffect ==
    [][(damage_events' # damage_events \/ mitigations' # mitigations) =>
          LET mi == report'.mitigation
              ai == report'.anchor
              from == damage_events[ai].time
              until == damage_events[ai].time + mitigations[mi].duration
          IN  /\ mi \in Pool /\ ai \in Events
              /\ Len(mitigations') = Len(mitigations)
              /\ Len(damage_events') = Len(damage_events)
              /\ mitigations'[mi].used_times = mitigations[mi].used_times \o <<from>>
              /\ \A k \in Pool :
                    /\ k # mi => mitigations'[k] = mitigations[k]
                    /\ mitigations'[k].name = mitigations[k].name
                    /\ mitigations'[k].physical_multiplier
                          = mitigations[k].physical_multiplier
                    /\ mitigations'[k].magical_multiplier
                          = mitigations[k].magical_multiplier
                    /\ mitigations'[k].duration = mitigations[k].duration
                    /\ mitigations'[k].recast = mitigations[k].recast
              /\ \A i \in Events :
                    /\ damage_events'[i].time = damage_events[i].time
                    /\ damage_events'[i].damage = damage_events[i].damage
                    /\ damage_events'[i].damage_type = damage_events[i].damage_type
                    /\ damage_events'[i].mitigations =
                          IF from <= damage_events[i].time /\ damage_events[i].time < until
                          THEN damage_events[i].mitigations \o <<mi>>
                          ELSE damage_events[i].mitigations]_vars

\* the last application reached two events at different times and left one out
C12_Witness ==
    /\ report.mitigation # 0
    /\ \E i, j, k \in Events :
          /\ damage_events[i].time < damage_events[j].time
          /\ damage_events[i].mitigations # <<>>
          /\ damage_events[j].mitigations # <<>>
          /\ Last(damage_events[i].mitigations) = report.mitigation
          /\ Last(damage_events[j].mitigations) = report.mitigation
          /\ damage_events[report.anchor].time = damage_events[i].time
          /\ damage_events[k].mitigations = <<>>

\* C13: the queries change nothing: the steps that only query (the loop test
\* that ends the loop, the search that finds nothing) leave every mitigations
\* list and every used_times as they were; the state changes only in an
\* iteration that found a lethal event and a candidate and applies it.
C13_OnlyApplyChanges ==
    [][/\ pc' = "DONE" =>
             /\ damage_events' = damage_events
             /\ mitigations' = mitigations
       /\ (damage_events' # damage_events \/ mitigations' # mitigations) =>
             /\ pc = "RUNNING" /\ pc' = "RUNNING"
             /\ Lethal # {}
             /\ report'.mitigation # 0
             /\ <<report'.mitigation, report'.anchor>> \in Candidates(report'.target)]_vars

\* the loop ended by its test after two applications
C13_Witness ==
    pc = "DONE" /\ result = "SOLVED" /\ TotalUses > 1

\* C14: over every step each event's mitigations and each mitigation's
\* used_times only grow at the end, and an applying iteration adds one entry
\* to the used_times of one mitigation.
C14_AppendOnly ==
    [][/\ Len(damage_events') = Len(damage_events)
       /\ Len(mitigations') = Len(mitigations)
       /\ \A i \in Events :
             IsPrefix(damage_events[i].mitigations, damage_events'[i].mitigations)
       /\ \A mi \in Pool :
             IsPrefix(mitigations[mi].used_times, mitigations'[mi].used_times)
       /\ pc' = "RUNNING" =>
             \E mi \in Pool :
                 /\ Len(mitigations'[mi].used_times)
                       = Len(mitigations[mi].used_times) + 1
                 /\ \A k \in Pool \ {mi} :
                       mitigations'[k].used_times = mitigations[k].used_times]_vars

\* a mitigation used at two different times
C14_Witness ==
    \E mi \in Pool :
        /\ Len(mitigations[mi].used_times) >= 2
        /\ mitigations[mi].used_times[1] # mitigations[mi].used_times[2]

\* a mitigation that keeps p / MultDen of either damage type
Keeps(p) == [physical_multiplier |-> p, magical_multiplier |-> p]

\* C15: every event's effective damage lies between 0 and its base damage, and
\* for a PHYSICAL or MAGICAL event appending a mitigation (one of the pool, or
\* any multiplier between 0 and 1) never raises the effective damage.
C15_Monotone ==
    \A i \in Events :
        /\ 0 <= Damage(i)
        /\ Damage(i) <= damage_events[i].damage
        /\ damage_events[i].damage_type # "UNIQUE" =>
              /\ \A mi \in Pool :
                    get_damage(Attach(damage_events[i], mi), mitigations) <= Damage(i)
              /\ \A p \in 0..MultDen :
                    /\ ReduceOnce(damage_events[i].damage_type, Damage(i), Keeps(p))
                          <= Damage(i)
                    /\ ReduceOnce(damage_events[i].damage_type, Damage(i), Keeps(p))
                          >= 0

\* a PHYSICAL or MAGICAL event that carries two mitigations and is below its
\* base damage
C15_Witness ==
    \E i \in Events :
        /\ damage_events[i].damage_type # "UNIQUE"
        /\ Len(damage_events[i].mitigations) >= 2
        /\ Damage(i) < damage_events[i].damage

\* C16: a UNIQUE event's effective damage is its base damage whatever is
\* attached to it, and the hypothetical damage removed is 0 for every
\* mitigation.
C16_UniqueInvariance ==
    \A i \in Events :
        damage_events[i].damage_type = "UNIQUE" =>
            /\ Damage(i) = damage_events[i].damage
            /\ \A mi \in Pool :
                  /\ apply_mitigation(damage_events[i], mitigations, mi) = 0
                  /\ get_damage(Attach(damage_events[i], mi), mitigations)
                        = damage_events[i].damage

\* a UNIQUE event that carries a mitigation
C16_Witness ==
    \E i \in Events :
        /\ damage_events[i].damage_type = "UNIQUE"
        /\ damage_events[i].mitigations # <<>>

RECURSIVE TotalFrom(_, _, _)
TotalFrom(evs, pool, i) ==
    IF i > Len(evs) THEN 0 ELSE get_damage(evs[i], pool) + TotalFrom(evs, pool, i + 1)

\* the sum of every event's effective damage
TotalDamage(evs, pool) == TotalFrom(evs, pool, 1)

\* C17: the amount reported for an iteration as damage removed is the total
\* damage the application removed: the sum of the effective damages before the
\* apply step minus the sum after it.
C17_ReportedIsRemoved ==
    [][mitigations' # mitigations =>
          report'.score = TotalDamage(damage_events, mitigations)
                             - TotalDamage(damage_events', mitigations')]_vars

\* C18: for every mitigation and anchor, score_mitigation is the total damage
\* actually reduced by applying the mitigation at the anchor: the sum of the
\* effective damages before minus the sum after, events that already carry the
\* same name included.
C18_ScoreIsReduction ==
    \A mi \in Pool : \A ai \in Events :
        score_mitigation(damage_events, mitigations, mi, ai)
            = TotalDamage(damage_events, mitigations)
                 - TotalDamage(AppliedEvents(damage_events, mitigations, mi, ai),
                               AppliedPool(damage_events, mitigations, mi, ai))

\* every mitigation of the pool has recast >= duration >= 1
RecastCoversDuration ==
    \A mi \in Pool :
        mitigations[mi].recast >= mitigations[mi].duration /\ mitigations[mi].duration >= 1

NoRepeatedUse ==
    \A mi \in Pool :
        \A j, k \in 1..Len(mitigations[mi].used_times) :
            j # k => mitigations[mi].used_times[j] # mitigations[mi].used_times[k]

\* (number of mitigations) x (number of distinct event times)
IterationBound ==
    Len(mitigations) * Cardinality({damage_events[i].time : i \in Events})

\* passes of the loop body so far: the applying ones and the one that breaks
LoopPasses == TotalUses + (IF result = "UNSOLVABLE" THEN 1 ELSE 0)

\* C19 as stated: with recast >= duration >= 1 for every mitigation, no
\* used_times holds a value twice and the loop body runs at most
\* (number of mitigations) x (number of distinct event times) times.
C19_WithinBoundPasses ==
    RecastCoversDuration =>
        /\ NoRepeatedUse
        /\ LoopPasses <= IterationBound

\* C19: with recast >= duration >= 1 for every mitigation, no used_times holds
\* a value twice, at most (number of mitigations) x (number of distinct event
\* times) iterations apply a mitigation (an application is never possible once
\* that many were made), and the loop body runs at most once more, for the
\* pass that finds nothing and breaks.
C19_WithinBoundApplications ==
    RecastCoversDuration =>
        /\ NoRepeatedUse
        /\ TotalUses <= IterationBound
        /\ LoopPasses <= IterationBound + 1
        /\ (pc = "RUNNING" /\ is_lethal_damage /\ Best.mitigation # 0) =>
              TotalUses < IterationBound

\* the loop ended after as many applications as the bound allows
C19_Witness ==
    /\ RecastCoversDuration
    /\ pc = "DONE"
    /\ IterationBound >= 2
    /\ TotalUses = IterationBound

\* the names of the pool are pairwise distinct and every recast is at least
\* 2 * duration - 1
DistinctNamesLongRecast ==
    /\ \A mi, mj \in Pool : mi # mj => mitigations[mi].name # mitigations[mj].name
    /\ \A mi \in Pool : mitigations[mi].recast >= 2 * mitigations[mi].duration - 1

\* the event's time lies in the window [u, u + duration) of a use at time u
Covers(u, mi, i) ==
    u <= damage_events[i].time /\ damage_events[i].time < u + mitigations[mi].duration

\* C20: with pairwise distinct names and recast >= 2 * duration - 1 for every
\* mitigation, no event's mitigations list holds the same mitigation twice, and
\* the windows [u, u + duration) of two uses of one mitigation share no event.
C20_DisjointWindows ==
    DistinctNamesLongRecast =>
        /\ \A i \in Events :
              \A j, k \in 1..Len(damage_events[i].mitigations) :
                  j # k => /\ damage_events[i].mitigations[j] # damage_events[i].mitigations[k]
                           /\ NameAt(i, j) # NameAt(i, k)
        /\ \A mi \in Pool :
              \A j, k \in 1..Len(mitigations[mi].used_times) :
                  j # k => \A i \in Events :
                              ~(/\ Covers(mitigations[mi].used_times[j], mi, i)
                                /\ Covers(mitigations[mi].used_times[k], mi, i))

\* a mitigation that lasts more than one tick was used twice
C20_Witness ==
    /\ DistinctNamesLongRecast
    /\ \E mi \in Pool :
          /\ mitigations[mi].duration >= 2
          /\ Len(mitigations[mi].used_times) >= 2

====
